---- MODULE Spec2Model ----
(***************************************************************************)
(* JoyoKanjiDataset (logs/joyo_kanji_dataset.py): a dataset that renders   *)
(* glyphs of a vocabulary on the fly.  The model covers construction       *)
(* (vocabulary extraction, font checks), __len__, set_current_epoch (the   *)
(* per-epoch shuffle done under a saved and restored ambient generator     *)
(* state) and __getitem__ (batch assembly with random fillers).            *)
(*                                                                         *)
(* Glyphs are code points (Python orders one-character strings by code     *)
(* point).  The ambient generator of the `random` module is a generator    *)
(* of RngBits bits of state in place of the Mersenne Twister; the          *)
(* functions built on it (randbelow by rejection, randint, random,         *)
(* shuffle, seed, getstate/setstate) follow CPython 3.11's random.py.      *)
(* Sequences are 1-based here and 0-based in the source.                   *)
(***************************************************************************)
EXTENDS Integers, Sequences, FiniteSets, TLC

VARIABLES
    phase,       \* "start" before __init__, "ready" after it, "failed" if it raised
    source,      \* LETTERS_FILE: whether it exists, and its text as code points
    width,       \* self.width (= self.height once constructed)
    letters,     \* self._letters
    indices,     \* self._indices
    img_count,   \* self.img_count
    rng,         \* state of the ambient generator of the random module
    perm_epoch,  \* epoch of the last set_current_epoch call if it returned, else NoEpoch
    call,        \* the last call: operation, argument, outcome, returned number
    result,      \* the example returned by the last __getitem__
    epoch_keys   \* image_keys of the in-range batches served since the last set_current_epoch

vars == <<phase, source, width, letters, indices, img_count, rng, perm_epoch,
          call, result, epoch_keys>>

(***************************************************************************)
(* Bounds                                                                  *)
(***************************************************************************)
\* BATCH_SIZE is 64 in the source; batches of 2 keep the vocabularies small
BATCH_SIZE == 2
MaxGlyphs == 5
MaxEpoch == 1
RngBits == 4
MaxTextLen == 4

(***************************************************************************)
(* Program constants                                                       *)
(***************************************************************************)
SEED == 42

FONT_NAMES ==
    <<"pop", "handwritten neat", "maru sans", "bold sans", "sans", "light sans",
      "bold serif", "serif", "light serif", "brush pop", "brush playful", "brush",
      "handwritten simple">>

NumFonts == Len(FONT_NAMES)

\* LETTERS_FILE: absent, or present with a text
NoFile == [exists |-> FALSE, text |-> <<>>]
File(text) == [exists |-> TRUE, text |-> text]

\* perm_epoch when the last set_current_epoch call did not return, or none was made
NoEpoch == 0 - 1

NEWLINE == 10
CR == 13
SPACE == 32
IDEOGRAPHIC_SPACE == 12288

\* the characters str.strip() removes: every c with chr(c).isspace()
Whitespace ==
    {9, NEWLINE, 11, 12, CR, 28, 29, 30, 31, SPACE, 133, 160, 5760}
        \cup (8192..8202) \cup {8232, 8233, 8239, 8287, IDEOGRAPHIC_SPACE}

(***************************************************************************)
(* Sequence helpers                                                        *)
(***************************************************************************)
Range(s) == {s[k] : k \in 1..Len(s)}

Abs(n) == IF n < 0 THEN 0 - n ELSE n

RECURSIVE Pow2(_)
Pow2(k) == IF k <= 0 THEN 1 ELSE 2 * Pow2(k - 1)

\* x[i], x[j] = x[j], x[i]   (i, j 0-based)
SwapCopies(x, i, j) == [x EXCEPT ![i + 1] = x[j + 1]]
Swap(x, i, j) == [x EXCEPT ![i + 1] = x[j + 1], ![j + 1] = x[i + 1]]

RECURSIVE InsertSorted(_, _)
InsertSorted(s, v) ==
    IF s = <<>> THEN <<v>>
    ELSE IF v <= Head(s) THEN <<v>> \o s
    ELSE <<Head(s)>> \o InsertSorted(Tail(s), v)

RECURSIVE SortRec(_)
SortRec(s) == IF s = <<>> THEN <<>> ELSE InsertSorted(SortRec(Tail(s)), Head(s))

\* list.sort() / sorted(list): ascending, duplicates kept
Unsorted(s) == s
ListSort(s) == SortRec(s)

\* list(a_set): the elements once each, in hash order, which varies from run to
\* run; the set of the lists it can return
RECURSIVE ListOrders(_)
ListOrders(S) ==
    IF S = {} THEN {<<>>}
    ELSE UNION {{<<x>> \o rest : rest \in ListOrders(S \ {x})} : x \in S}

(***************************************************************************)
(* The ambient generator                                                   *)
(***************************************************************************)
RngSize == Pow2(RngBits)
RngStates == 0..(RngSize - 1)

\* one step of the generator
Advance(s) == (5 * s + 3) % RngSize

\* random.seed(a) for an int a: the state is a function of abs(a)
Seed(a) == (Abs(a) * 7) % RngSize

\* n.bit_length()
RECURSIVE BitLength(_)
BitLength(n) == IF n <= 0 THEN 0 ELSE 1 + BitLength(n \div 2)

\* random.getrandbits(k): the top k bits of the next output
GetRandBits(k, s) ==
    LET t == Advance(s) IN [val |-> t \div Pow2(RngBits - k), state |-> t]

\* Random._randbelow_with_getrandbits(n), n > 0: draw until below n
RECURSIVE RandBelow(_, _)
RandBelow(n, s) ==
    LET d == GetRandBits(BitLength(n), s)
    IN IF d.val < n THEN d ELSE RandBelow(n, d.state)

\* random.randint(a, b), for a <= b
RandInt(a, b, s) ==
    LET d == RandBelow(b - a + 1, s) IN [val |-> a + d.val, state |-> d.state]

\* random.random(): the draw is num / RngSize
Random(s) == LET t == Advance(s) IN [num |-> t, state |-> t]

\* random.random() < pct / 100
Below(d, pct) == 100 * d.num < pct * RngSize

\* random.shuffle(x) from loop index i on:
\*   for i in reversed(range(1, len(x))): j = randbelow(i + 1); swap x[i], x[j]
RECURSIVE ShuffleFrom(_, _, _)
ShuffleFrom(x, s, i) ==
    IF i < 1 THEN [list |-> x, state |-> s]
    ELSE LET d == RandBelow(i + 1, s)
         IN ShuffleFrom(Swap(x, i, d.val), d.state, i - 1)

Shuffle(x, s) == ShuffleFrom(x, s, Len(x) - 1)

\* the generator states randbelow(n) passes through, one after each getrandbits
RECURSIVE RandBelowStates(_, _)
RandBelowStates(n, s) ==
    LET d == GetRandBits(BitLength(n), s)
    IN {d.state} \cup (IF d.val < n THEN {} ELSE RandBelowStates(n, d.state))

\* the (list, generator state) pairs random.shuffle passes through from loop index
\* i on: before an iteration, after each draw of it (its swap not yet done), and at
\* the end of the loop
RECURSIVE ShufflePoints(_, _, _)
ShufflePoints(x, s, i) ==
    IF i < 1 THEN {[list |-> x, state |-> s]}
    ELSE LET d == RandBelow(i + 1, s)
         IN {[list |-> x, state |-> s]}
              \cup {[list |-> x, state |-> t] : t \in RandBelowStates(i + 1, s)}
              \cup ShufflePoints(Swap(x, i, d.val), d.state, i - 1)

\* random.setstate(saved) when the generator is in state cur
KeepState(saved, cur) == cur
SetState(saved, cur) == saved

(***************************************************************************)
(* Vocabulary extraction (__init__, "read letters")                        *)
(***************************************************************************)
\* iterating a file opened in text mode (universal newlines): "\r\n" and "\r" are
\* read as "\n"; each line runs up to and including its "\n"
RECURSIVE SplitLines(_, _)
SplitLines(text, cur) ==
    IF text = <<>> THEN (IF cur = <<>> THEN <<>> ELSE <<cur>>)
    ELSE IF Head(text) = CR /\ Len(text) >= 2 /\ text[2] = NEWLINE
         THEN SplitLines(Tail(text), cur)
    ELSE IF Head(text) \in {NEWLINE, CR}
         THEN <<Append(cur, NEWLINE)>> \o SplitLines(Tail(text), <<>>)
         ELSE SplitLines(Tail(text), Append(cur, Head(text)))

RECURSIVE LStrip(_)
LStrip(line) ==
    IF line # <<>> /\ Head(line) \in Whitespace THEN LStrip(Tail(line)) ELSE line

RECURSIVE RStrip(_)
RStrip(line) ==
    IF line # <<>> /\ line[Len(line)] \in Whitespace
    THEN RStrip(SubSeq(line, 1, Len(line) - 1))
    ELSE line

\* line.strip()
NoStrip(line) == line
Strip(line) == RStrip(LStrip(line))

\* for line in f: line = line.strip(); for c in line: letters.add(c)
RECURSIVE AddLines(_, _)
AddLines(lines, acc) ==
    IF lines = <<>> THEN acc
    ELSE AddLines(Tail(lines), acc \cup Range(Strip(Head(lines))))

ReadLetters(text) == AddLines(SplitLines(text, <<>>), {})

\* sorted(list(letters)), for each order list(letters) can come in
Vocabularies(text) == {ListSort(lst) : lst \in ListOrders(ReadLetters(text))}

(***************************************************************************)
(* __len__                                                                 *)
(***************************************************************************)
NumBatchesFloor(v) == v \div BATCH_SIZE
NumBatches(v) == (v + BATCH_SIZE - 1) \div BATCH_SIZE

NoKeys(v) == [b \in 1..NumBatches(v) |-> <<>>]

(***************************************************************************)
(* Inputs                                                                  *)
(***************************************************************************)
\* the k-th glyph of a letters file: distinct CJK code points, not in order
GlyphAt(k) == 19968 + ((k * 37) % 101)

\* a letters file of n glyphs, one per line
RECURSIVE GlyphLines(_)
GlyphLines(n) == IF n = 0 THEN <<>> ELSE GlyphLines(n - 1) \o <<GlyphAt(n), NEWLINE>>

Sources == {File(GlyphLines(n)) : n \in 0..MaxGlyphs} \cup {NoFile}

Alphabet == {NEWLINE, CR, SPACE, GlyphAt(1), GlyphAt(2)}
Texts == UNION {[1..n -> Alphabet] : n \in 0..MaxTextLen}

Widths == {64}
Heights == {64, 32}
Epochs == 0..MaxEpoch
\* batch indexes: one below the valid range, the valid ones, one above
BatchIndexes == (0 - 1)..NumBatches(MaxGlyphs)

NoResult ==
    [images |-> <<>>, input_ids |-> <<>>, captions |-> <<>>, latents |-> "None",
     image_keys |-> <<>>, loss_weights |-> <<>>]

\* draws: the random.randint draws of line 123 made during the call, each with the
\* generator state it was made from
Call(op, arg, status, ret) ==
    [op |-> op, arg |-> arg, status |-> status, ret |-> ret, draws |-> <<>>]

(***************************************************************************)
(* __init__                                                                *)
(***************************************************************************)
InitFails(error) ==
    /\ phase' = "failed"
    /\ call' = Call("__init__", 0, error, 0)
    /\ UNCHANGED <<source, width, letters, indices, img_count, rng, perm_epoch,
                   result, epoch_keys>>

\* w, h: the resolution given; missing: the first font file that does not exist, 0 if none
Construct(w, h, missing) ==
    /\ phase = "start"
    /\ IF w # h THEN InitFails("AssertionError")
       ELSE IF ~source.exists THEN InitFails("FileNotFoundError")
       ELSE IF missing # 0 THEN InitFails("AssertionError")
       ELSE \E voc \in Vocabularies(source.text) :
            /\ phase' = "ready"
            /\ width' = w
            /\ letters' = voc
            /\ indices' = [k \in 1..Len(voc) |-> k - 1]
            /\ img_count' = Len(voc)
            /\ epoch_keys' = NoKeys(Len(voc))
            /\ call' = Call("__init__", 0, "ok", 0)
            /\ UNCHANGED <<source, rng, perm_epoch, result>>

DoConstruct == \E w \in Widths, h \in Heights, missing \in 0..NumFonts : Construct(w, h, missing)

InitCommon ==
    /\ phase = "start"
    /\ width = 0
    /\ letters = <<>>
    /\ indices = <<>>
    /\ img_count = 0
    /\ perm_epoch = NoEpoch
    /\ call = Call("none", 0, "ok", 0)
    /\ result = NoResult
    /\ epoch_keys = <<>>

\* construction over every short text
InitVocab == InitCommon /\ source \in {File(t) : t \in Texts} \cup {NoFile} /\ rng = 0
NextVocab == DoConstruct
SpecVocab == InitVocab /\ [][NextVocab]_vars

(***************************************************************************)
(* __len__                                                                 *)
(***************************************************************************)
LenCall ==
    /\ phase = "ready"
    /\ call' = Call("__len__", 0, "ok", NumBatches(Len(letters)))
    /\ result' = NoResult
    /\ UNCHANGED <<phase, source, width, letters, indices, img_count, rng, perm_epoch,
                   epoch_keys>>

(***************************************************************************)
(* set_current_epoch                                                       *)
(***************************************************************************)
\* self._indices.sort();  random.seed(SEED + epoch);  random.shuffle(self._indices)
EpochShuffle(idx, epoch) == Shuffle(ListSort(idx), Seed(SEED + epoch))

\* super().set_current_epoch(epoch): the hook of the base class MinimalDataset
\* (library.train_util), taken from the specification: it notes the epoch and
\* makes no draw from, and no change to, the ambient generator (state s)
BaseSetCurrentEpoch(epoch, s) == [current_epoch |-> epoch, state |-> s]

\* the call runs to its end
SetCurrentEpoch(epoch) ==
    /\ phase = "ready"
    /\ LET rnd_state == rng
           sh == EpochShuffle(indices, epoch)
           base == BaseSetCurrentEpoch(epoch, SetState(rnd_state, sh.state))
       IN /\ indices' = sh.list
          /\ rng' = base.state
          /\ perm_epoch' = base.current_epoch
    /\ epoch_keys' = NoKeys(Len(letters))
    /\ call' = Call("set_current_epoch", epoch, "ok", 0)
    /\ result' = NoResult
    /\ UNCHANGED <<phase, source, width, letters, img_count>>

\* epoch is no number (None, a string): SEED + epoch raises TypeError, after the sort
\* and the getstate, before the generator is seeded
SetCurrentEpochBadType ==
    /\ phase = "ready"
    /\ indices' = ListSort(indices)
    /\ perm_epoch' = NoEpoch
    /\ epoch_keys' = NoKeys(Len(letters))
    /\ call' = Call("set_current_epoch", 0, "TypeError", 0)
    /\ result' = NoResult
    /\ UNCHANGED <<phase, source, width, letters, img_count, rng>>

\* where an exception raised asynchronously during the call (a KeyboardInterrupt,
\* delivered between two bytecodes, also inside random.seed's and random.shuffle's
\* Python code) leaves _indices and the generator: no handler and no finally clause
\* stands between it and the caller, so whatever follows it is not run
InterruptPoints(idx, s, epoch) ==
    LET srt == ListSort(idx)
    IN {[list |-> idx, state |-> s]}                           \* before the sort
         \cup {[list |-> srt, state |-> s]}                    \* before random.seed
         \cup ShufflePoints(srt, Seed(SEED + epoch), Len(srt) - 1)
         \cup {[list |-> EpochShuffle(idx, epoch).list, state |-> s]}  \* after setstate

SetCurrentEpochInterrupted(epoch) ==
    /\ phase = "ready"
    /\ \E point \in InterruptPoints(indices, rng, epoch) :
          /\ indices' = point.list
          /\ rng' = point.state
    /\ perm_epoch' = NoEpoch
    /\ epoch_keys' = NoKeys(Len(letters))
    /\ call' = Call("set_current_epoch", epoch, "KeyboardInterrupt", 0)
    /\ result' = NoResult
    /\ UNCHANGED <<phase, source, width, letters, img_count>>

(***************************************************************************)
(* __getitem__                                                             *)
(***************************************************************************)
\* seq[k] with Python's indexing: k in [-len, len), negative k counts from the end
InRange(seq, k) == 0 - Len(seq) <= k /\ k < Len(seq)
At(seq, k) == IF k >= 0 THEN seq[k + 1] ELSE seq[Len(seq) + k + 1]

\* for i in range(BATCH_SIZE)
Slots(index, v) == 0..(BATCH_SIZE - 1)

\* letter_index = random.randint(0, len(self._letters) - 1), for a slot whose
\* linear index is v or more (v > 0)
WrapAround(linear, v, s) == [val |-> linear % v, state |-> s]
FillerIndex(linear, v, s) == RandInt(0, v - 1, s)

\* letter_index = self._indices[letter_index]
Unpermuted(idx, letter_index) == letter_index
Permuted(idx, letter_index) == At(idx, letter_index)

\* the caption of one sample: the draws in the order the code makes them
Caption(letter, font_index, s) ==
    LET r1 == Random(s)
        r2 == Random(r1.state)
        prep == IF Below(r1, 33) THEN "by" ELSE IF Below(r2, 50) THEN "with" ELSE "in"
        s2 == IF Below(r1, 33) THEN r1.state ELSE r2.state
        r3 == Random(s2)
        article == IF Below(r3, 50) THEN "" ELSE "the"
        frags == << [words |-> prep, name |-> FONT_NAMES[font_index + 1], glyph |-> 0],
                    [words |-> article, name |-> "letter", glyph |-> letter] >>
        sh == Shuffle(frags, r3.state)
    IN [caption |-> sh.list, state |-> sh.state]

NoBatch(status, s) == [status |-> status, example |-> NoResult, state |-> s, draws |-> <<>>]

\* the slots `todo` of the loop in ascending order, from generator state s, appended
\* to acc; draws: the randint draws of line 123 made so far
RECURSIVE BuildSlots(_, _, _, _, _)
BuildSlots(index, todo, s, acc, draws) ==
    IF todo = {} THEN [status |-> "ok", example |-> acc, state |-> s, draws |-> draws]
    ELSE
    LET i == CHOOSE x \in todo : \A y \in todo : x <= y
        v == Len(letters)
        linear == index * BATCH_SIZE + i
        filler == linear >= v
    IN IF filler /\ v - 1 < 0
       THEN NoBatch("ValueError", s)
       ELSE
       LET d == IF filler THEN FillerIndex(linear, v, s) ELSE [val |-> linear, state |-> s]
           drawn == IF filler THEN Append(draws, [from |-> s, val |-> d.val]) ELSE draws
       IN IF ~InRange(indices, d.val)
          THEN NoBatch("IndexError", d.state)
          ELSE
          LET letter_index == Permuted(indices, d.val)
          IN IF ~InRange(letters, letter_index)
             THEN NoBatch("IndexError", d.state)
             ELSE
             LET letter == At(letters, letter_index)
                 f == RandInt(0, NumFonts - 1, d.state)
                 img == [glyph |-> letter, font |-> f.val, width |-> width, height |-> width]
                 c == Caption(letter, f.val, f.state)
             IN BuildSlots(index, todo \ {i}, c.state,
                    [acc EXCEPT !.image_keys = Append(@, letter),
                                !.images = Append(@, img),
                                !.captions = Append(@, c.caption),
                                !.input_ids = Append(@, [ids_of |-> c.caption])],
                    drawn)

GetItem(index) ==
    /\ phase = "ready"
    /\ LET built == BuildSlots(index, Slots(index, Len(letters)), rng, NoResult, <<>>)
           served == built.status = "ok" /\ 0 <= index /\ index < Len(epoch_keys)
       IN /\ rng' = built.state
          /\ call' = [Call("__getitem__", index, built.status, 0) EXCEPT
                          !.draws = built.draws]
          /\ result' = IF built.status = "ok"
                       THEN [built.example EXCEPT
                               !.loss_weights = [k \in 1..BATCH_SIZE |-> 1]]
                       ELSE NoResult
          /\ epoch_keys' = IF served
                           THEN [epoch_keys EXCEPT ![index + 1] = built.example.image_keys]
                           ELSE epoch_keys
    /\ UNCHANGED <<phase, source, width, letters, indices, img_count, perm_epoch>>

(***************************************************************************)
(* The dataset in use                                                      *)
(***************************************************************************)
Init == InitCommon /\ source \in Sources /\ rng \in RngStates

Next ==
    \/ DoConstruct
    \/ LenCall
    \/ \E epoch \in Epochs : SetCurrentEpoch(epoch)
    \/ SetCurrentEpochBadType
    \/ \E epoch \in Epochs : SetCurrentEpochInterrupted(epoch)
    \/ \E index \in BatchIndexes : GetItem(index)

Spec == Init /\ [][Next]_vars

(***************************************************************************)
(* Properties                                                              *)
(***************************************************************************)
V == Len(letters)
Identity(n) == [k \in 1..n |-> k - 1]
IsSetEpoch(c) == c.op = "set_current_epoch"
IsGetItem(c) == c.op = "__getitem__"

\* the permutation of an epoch, computed from the canonical order
ReferencePermutation(n, epoch) == Shuffle(Identity(n), Seed(SEED + epoch)).list

\* C1: a set_current_epoch call that returns leaves the ambient generator in the
\* state it found it in, whatever calls came before, so the draws that follow are
\* those that would have followed without the call.
C1_AmbientStateIsolation ==
    [][(IsSetEpoch(call') /\ call'.status = "ok") => rng' = rng]_vars

\* a returned set_current_epoch whose shuffle moved the indices and left the
\* seeded generator somewhere else than the ambient state
C1_Witness ==
    /\ IsSetEpoch(call) /\ call.status = "ok"
    /\ indices # Identity(V)
    /\ rng # EpochShuffle(indices, call.arg).state
    /\ rng # Seed(SEED + call.arg)

\* C2: whenever _indices holds the completed shuffle of an epoch it is the
\* permutation that (SEED, epoch, vocabulary size) determine, whatever calls and
\* whatever ambient generator state preceded the shuffle.
C2_ShuffleDeterminism ==
    perm_epoch # NoEpoch => indices = ReferencePermutation(V, perm_epoch)

\* a batch served under the shuffle of the last epoch, the shuffle having moved
\* the indices
C2_Witness ==
    /\ perm_epoch = MaxEpoch
    /\ IsGetItem(call)
    /\ indices # Identity(V)
    /\ V >= 3

\* C3: in every state _indices has the length of _letters and holds every index
\* of [0, V) exactly once.
C3_PermutationValidity ==
    /\ Len(indices) = V
    /\ Range(indices) = 0..(V - 1)

\* an interrupted shuffle, and a completed one, of at least three indices
C3_Witness ==
    /\ IsSetEpoch(call)
    /\ call.status = "KeyboardInterrupt"
    /\ V >= 3
    /\ indices # Identity(V)

AllServed == \A b \in 1..Len(epoch_keys) : epoch_keys[b] # <<>>
NonFinal(b) == b < Len(epoch_keys)
NoRepeat(keys) == \A i, j \in 1..Len(keys) : keys[i] = keys[j] => i = j

\* C4: once every batch 0 .. __len__()-1 has been served under one permutation,
\* the image_keys together hold every vocabulary glyph; a batch other than the
\* final one holds no glyph twice and shares no glyph with another such batch.
C4_Coverage ==
    /\ phase = "ready" => Len(epoch_keys) = NumBatches(V)
    /\ (phase = "ready" /\ AllServed) =>
           UNION {Range(epoch_keys[b]) : b \in 1..Len(epoch_keys)} = Range(letters)
    /\ \A b \in 1..Len(epoch_keys) :
           (NonFinal(b) /\ epoch_keys[b] # <<>>) => NoRepeat(epoch_keys[b])
    /\ \A b, c \in 1..Len(epoch_keys) :
           (NonFinal(b) /\ NonFinal(c) /\ b # c) =>
               Range(epoch_keys[b]) \cap Range(epoch_keys[c]) = {}

\* a whole epoch served: two full batches and a final one with a filler
C4_Witness ==
    /\ Len(epoch_keys) >= 3
    /\ AllServed
    /\ V % BATCH_SIZE # 0
    /\ perm_epoch # NoEpoch

\* the first slot of batch `index` whose linear index is V or more (BATCH_SIZE if none)
FirstFiller(index) ==
    LET left == V - index * BATCH_SIZE
    IN IF left <= 0 THEN 0 ELSE IF left >= BATCH_SIZE THEN BATCH_SIZE ELSE left

\* C5: __getitem__ with batch_index in [0, __len__()) returns BATCH_SIZE images,
\* captions, token-id rows, image_keys and loss weights, each weight 1, also in the
\* final batch of a vocabulary that BATCH_SIZE does not divide; there each slot
\* whose linear index is V or more has a draw of its own, random.randint(0, V-1)
\* made from the ambient generator, which lies in [0, V), and the slot holds the
\* glyph _letters[_indices[draw]]: it is neither left empty nor a function of the
\* linear index.
C5_BatchShape ==
    (IsGetItem(call) /\ 0 <= call.arg /\ call.arg < NumBatches(V)) =>
        /\ call.status = "ok"
        /\ Len(result.images) = BATCH_SIZE
        /\ Len(result.captions) = BATCH_SIZE
        /\ Len(result.input_ids) = BATCH_SIZE
        /\ Len(result.image_keys) = BATCH_SIZE
        /\ Len(result.loss_weights) = BATCH_SIZE
        /\ \A k \in 1..Len(result.loss_weights) : result.loss_weights[k] = 1
        /\ Range(result.image_keys) \subseteq Range(letters)
        /\ Len(call.draws) = BATCH_SIZE - FirstFiller(call.arg)
        /\ \A i \in FirstFiller(call.arg)..(BATCH_SIZE - 1) :
               LET draw == call.draws[i - FirstFiller(call.arg) + 1] IN
               /\ draw.val \in 0..(V - 1)
               /\ draw.val = RandInt(0, V - 1, draw.from).val
               /\ result.image_keys[i + 1] = letters[indices[draw.val + 1] + 1]

\* the final batch of a vocabulary that BATCH_SIZE does not divide, its last slot
\* filled with another glyph than wrapping the linear index around would give
C5_Witness ==
    /\ IsGetItem(call)
    /\ call.status = "ok"
    /\ call.arg = NumBatches(V) - 1
    /\ V % BATCH_SIZE # 0
    /\ V >= 3
    /\ Len(result.image_keys) = BATCH_SIZE
    /\ Len(call.draws) >= 1
    /\ result.image_keys[BATCH_SIZE] #
           letters[indices[((call.arg * BATCH_SIZE + BATCH_SIZE - 1) % V) + 1] + 1]

\* C6: __getitem__ with batch_index outside [0, __len__()) fails and returns no
\* batch.
C6_RangeError ==
    (IsGetItem(call) /\ (call.arg < 0 \/ call.arg >= NumBatches(V))) =>
        (call.status # "ok" /\ result = NoResult)

\* C7: no constructed dataset has an empty vocabulary.
C7_EmptyVocabularyRejected == phase = "ready" => V > 0

\* C8: a set_current_epoch call that fails after the generator state was saved
\* leaves the ambient generator in the saved state.
C8_ExceptionSafeRestore ==
    [][(IsSetEpoch(call') /\ call'.status # "ok") => rng' = rng]_vars

\* position p of the text survives line.strip(): it is no whitespace, or it has a
\* character that is no whitespace before it and one after it on its line (no
\* "\n" and no "\r" from the one to the other)
Kept(text, p) ==
    \/ text[p] \notin Whitespace
    \/ \E a \in 1..(p - 1), b \in (p + 1)..Len(text) :
          /\ text[a] \notin Whitespace
          /\ text[b] \notin Whitespace
          /\ \A k \in a..b : text[k] \notin {NEWLINE, CR}

Ascending(s) == \A i, j \in 1..Len(s) : i < j => s[i] < s[j]

\* C9 (as claimed): the vocabulary is the ascending sequence of every distinct
\* character of the source text, whitespace and newlines included, and img_count
\* is its length.
C9_VocabularyUnfiltered ==
    phase = "ready" =>
        /\ Range(letters) = Range(source.text)
        /\ Ascending(letters)
        /\ img_count = Len(letters)

\* C9 (as amended): the vocabulary is the ascending sequence of every distinct
\* character left in a line of the source text once the whitespace at both ends
\* of the line (its line end "\n", "\r" or "\r\n" included) is stripped;
\* whitespace inside a line stays; img_count is its length.
C9_VocabularyStripped ==
    phase = "ready" =>
        /\ Range(letters) = {source.text[p] : p \in {q \in 1..Len(source.text) : Kept(source.text, q)}}
        /\ Ascending(letters)
        /\ img_count = Len(letters)

\* a text whose lines end in whitespace that is dropped and hold a space that stays
C9_Witness ==
    /\ phase = "ready"
    /\ SPACE \in Range(letters)
    /\ Len(letters) = 3
    /\ NEWLINE \in Range(source.text)
    /\ source.text[Len(source.text)] \in Whitespace

\* C10: in a batch b >= 0 every slot whose linear index is below V holds
\* _letters[_indices[linear index]], and when _indices holds the shuffle of an
\* epoch that glyph is determined by the vocabulary, the epoch and the slot alone,
\* not by the ambient generator state or the calls before.
C10_BatchConsistency ==
    (IsGetItem(call) /\ call.status = "ok" /\ call.arg >= 0) =>
        \A i \in 0..(BATCH_SIZE - 1) :
            LET linear == call.arg * BATCH_SIZE + i IN
            linear < V =>
                /\ result.image_keys[i + 1] = letters[indices[linear + 1] + 1]
                /\ perm_epoch # NoEpoch =>
                       result.image_keys[i + 1] =
                           letters[ReferencePermutation(V, perm_epoch)[linear + 1] + 1]

\* a second batch served under a shuffle that moved its slots
C10_Witness ==
    /\ IsGetItem(call) /\ call.status = "ok"
    /\ call.arg = 1
    /\ perm_epoch # NoEpoch
    /\ V >= (call.arg + 1) * BATCH_SIZE
    /\ result.image_keys[1] # letters[call.arg * BATCH_SIZE + 1]

====
